---- MODULE Spec2Model ----
(***************************************************************************)
(* Eclipse ship duel: the Monte-Carlo win-probability estimator.           *)
(*                                                                         *)
(* Two modules implement the same duel: battle_sim.py (the reference, Ship *)
(* objects) and battle_sim_numba.py (a pure-Python fallback and a Numba    *)
(* path).  The model follows win_probability step by step: entry, one step *)
(* per trial start, one step per shot (one die roll), one step per empty   *)
(* volley, one step per trial end, and the final division.                 *)
(*                                                                         *)
(* Integers are small everywhere in the model, far from the int32 / int64  *)
(* widths of the Numba path, so no wrap-around is modelled.                *)
(***************************************************************************)
EXTENDS Integers, Sequences, FiniteSets, TLC

VARIABLES
    module,            \* which file's win_probability is called
    NUMBA_AVAILABLE,   \* battle_sim_numba.py: the import-time flag
    spec_a, spec_b,    \* the caller's two spec dicts
    simulations,       \* the trial count argument
    seed,              \* the seed argument (NoSeed models None)
    pc,                \* position in win_probability
    i,                 \* trials completed (the range index)
    wins,              \* the win counter
    a_won,             \* history: trials that ended with B destroyed and A alive
    duel,              \* the running trial: hulls, firing order, position
    result,            \* what the call produced
    duel2,             \* a second run of the resolver on the same rolls
    py_rng,            \* state of the `random` module's global generator
    np_rng,            \* state of NumPy's global generator (interpreter side)
    nb_rng,            \* state of the generator used inside compiled code
    tape,              \* per seed, the outcomes its stream has produced so far
    call,              \* 1 or 2: which call of win_probability is running
    first,             \* the first call's result
    shot,              \* single-shot resolution: one roll judged by all three
    par                \* the parallel loop of _batch_simulate: workers and trials left

args == <<module, NUMBA_AVAILABLE, spec_a, spec_b, simulations, seed>>
drv  == <<pc, i, wins, a_won, duel, result>>
rngv == <<py_rng, np_rng, nb_rng, tape, call, first>>
vars == <<args, drv, rngv, duel2, shot, par>>

----------------------------------------------------------------------------
(* Bounds of the model *)

MaxSims == 2          \* largest trial count tried
MaxStat == 4          \* computer and shield range 0..MaxStat in SpecHit
MaxRolls == 3         \* longest recorded prefix of a seeded stream
MaxSeed == 1          \* seeds 1..MaxSeed
MaxWorkers == 2       \* threads of the parallel loop

NoSeed == 0           \* stands for seed=None

----------------------------------------------------------------------------
(* Ship specs *)

Spec6(init, hull, comp, sh, mis, can) ==
    [initiative |-> init, hull |-> hull, computer |-> comp, shield |-> sh,
     missiles |-> mis, cannons |-> can]

\* The four scenarios of the test suite.
T1A == Spec6(5, 1, 2, 1, <<>>, <<1>>)
T1B == Spec6(4, 1, 1, 1, <<>>, <<1>>)
T2A == Spec6(4, 2, 2, 1, <<1>>, <<1>>)
T2B == Spec6(5, 2, 1, 1, <<2>>, <<1>>)
T3A == Spec6(5, 2, 2, 1, <<1, 1>>, <<1>>)
T3B == Spec6(4, 2, 1, 1, <<1, 1, 1>>, <<1>>)
T4A == Spec6(6, 3, 2, 1, <<2, 1>>, <<2, 1>>)
T4B == Spec6(4, 3, 1, 1, <<2, 1, 1>>, <<1, 1>>)

\* Edge inputs the signature admits: no weapons at all, missiles but no
\* cannon, a zero hull, a negative damage value.
Unarmed    == Spec6(4, 1, 0, 0, <<>>, <<>>)
MissileBoat == Spec6(3, 1, 2, 0, <<1>>, <<>>)
ZeroHull   == Spec6(5, 0, 2, 1, <<>>, <<1>>)
NegMissile == Spec6(4, 1, 2, 1, <<-1>>, <<1>>)

TestShips == {T1A, T1B, T2A, T2B, T3A, T3B, T4A, T4B}
ValidShips == TestShips \cup {Unarmed, MissileBoat}
Ships == ValidShips \cup {ZeroHull, NegMissile}

\* A well-formed spec: positive hull, no negative damage value.
Valid(s) ==
    /\ s.hull > 0
    /\ \A k \in 1..Len(s.missiles) : s.missiles[k] >= 0
    /\ \A k \in 1..Len(s.cannons) : s.cannons[k] >= 0

Engines == {<<"battle_sim", FALSE>>, <<"battle_sim_numba", FALSE>>,
            <<"battle_sim_numba", TRUE>>}

Engine == IF module = "battle_sim" THEN "ref"
          ELSE IF NUMBA_AVAILABLE THEN "nb" ELSE "py"

----------------------------------------------------------------------------
(* Single-shot resolution *)

Sym(s) == [sym |-> s, val |-> 0]
Num(n) == [sym |-> "", val |-> n]

\* The six faces random.choice picks from, by index 0..5.
Faces == <<Sym("No damage"), Num(2), Num(3), Num(4), Num(5), Sym("Full hit")>>

Ship_roll(k) == Faces[k + 1]

Ship_hit_gt(roll, computer, target_shield) ==
    IF roll.sym = "No damage" THEN FALSE
    ELSE IF roll.sym = "Full hit" THEN TRUE
    ELSE roll.val + computer - target_shield > 6

Ship_hit(roll, computer, target_shield) ==
    IF roll.sym = "No damage" THEN FALSE
    ELSE IF roll.sym = "Full hit" THEN TRUE
    ELSE roll.val + computer - target_shield >= 6

roll_hit_py(r, comp, shield) ==
    IF r = 0 THEN FALSE
    ELSE IF r = 5 THEN TRUE
    ELSE LET val == r + 1 IN val + comp - shield >= 6

VALUES == <<-1, 2, 3, 4, 5, -2>>

roll_hit(r, comp, shield) ==
    LET val == VALUES[r + 1] IN
    IF val = -1 THEN FALSE
    ELSE IF val = -2 THEN TRUE
    ELSE val + comp - shield >= 6

Rolls == 0..5

Hit(e, r, comp, shield) ==
    CASE e = "ref" -> Ship_hit(Ship_roll(r), comp, shield)
      [] e = "py"  -> roll_hit_py(r, comp, shield)
      [] e = "nb"  -> roll_hit(r, comp, shield)

----------------------------------------------------------------------------
(* One duel *)

Ship_destroyed_eq(hp) == hp = 0

Ship_destroyed(hp) == hp <= 0

Ship_take_one(hp, dmg) == hp - 1

Ship_take_none(hp, dmg) == hp

Ship_take(hp, dmg) == hp - dmg

FirstIsA_lt(sa, sb) == sa.initiative < sb.initiative

FirstIsA_ge(sa, sb) == sa.initiative >= sb.initiative

FirstIsA_fixed(sa, sb) == sa.initiative > sb.hull

FirstIsA(sa, sb) == sa.initiative > sb.initiative

\* A trial's state at its start: fresh hulls from the specs, the firing
\* order, and the position before the first missile volley.
NewDuel(sa, sb) ==
    [a_hp |-> sa.hull, b_hp |-> sb.hull, a_first |-> FirstIsA(sa, sb),
     phase |-> "missile", turn |-> 1, idx |-> 1, done |-> FALSE, ret |-> 0]

\* Who fires at this position: turn 1 is `first`, turn 2 is `second`.
Attacker(d) == IF (d.turn = 1) = d.a_first THEN "a" ELSE "b"

Weapons(sa, sb, d) ==
    LET s == IF Attacker(d) = "a" THEN sa ELSE sb IN
    IF d.phase = "missile" THEN s.missiles ELSE s.cannons

TargetHp(d) == IF Attacker(d) = "a" THEN d.b_hp ELSE d.a_hp

Resolve(d, v) == [d EXCEPT !.done = TRUE, !.ret = v]

NextVolley_again(d) ==
    IF d.turn = 1 THEN [d EXCEPT !.turn = 2, !.idx = 1]
    ELSE [d EXCEPT !.turn = 1, !.idx = 1]

NextVolley(d) ==
    IF d.turn = 1 THEN [d EXCEPT !.turn = 2, !.idx = 1]
    ELSE [d EXCEPT !.phase = "cannon", !.turn = 1, !.idx = 1]

RefVerdict_b(d) ==
    IF Ship_destroyed(d.a_hp) /\ Ship_destroyed(d.b_hp) THEN 0
    ELSE IF ~Ship_destroyed(d.b_hp) THEN 1 ELSE -1

\* battle_sim.py: the verdict after the cannon loop.
RefVerdict(d) ==
    IF Ship_destroyed(d.a_hp) /\ Ship_destroyed(d.b_hp) THEN 0
    ELSE IF ~Ship_destroyed(d.a_hp) THEN 1 ELSE -1

RefLoopHead_or(d) ==
    IF ~Ship_destroyed(d.a_hp) \/ ~Ship_destroyed(d.b_hp)
    THEN [d EXCEPT !.phase = "cannon", !.turn = 1, !.idx = 1]
    ELSE Resolve(d, RefVerdict(d))

\* battle_sim.py: the while condition of the cannon loop.
RefLoopHead(d) ==
    IF ~Ship_destroyed(d.a_hp) /\ ~Ship_destroyed(d.b_hp)
    THEN [d EXCEPT !.phase = "cannon", !.turn = 1, !.idx = 1]
    ELSE Resolve(d, RefVerdict(d))

\* battle_sim.py: control after a volley.  `fired` says the weapon list was
\* non-empty (the missile phase skips fire and check for an empty list).
simulate_once_after(d, fired) ==
    IF d.phase = "missile"
    THEN IF fired /\ Ship_destroyed(TargetHp(d))
         THEN Resolve(d, IF Attacker(d) = "a" THEN 1 ELSE -1)
         ELSE IF d.turn = 1 THEN NextVolley(d) ELSE RefLoopHead(d)
    ELSE IF d.turn = 1
         THEN IF Ship_destroyed(TargetHp(d))
              THEN Resolve(d, RefVerdict(d))
              ELSE NextVolley(d)
         ELSE RefLoopHead(d)

\* battle_sim_numba.py: control after a volley (both paths).
battle_once_after(d) ==
    IF Ship_destroyed(TargetHp(d))
    THEN Resolve(d, IF Attacker(d) = "a" THEN 1 ELSE 0)
    ELSE NextVolley(d)

After(e, d, fired) ==
    IF e = "ref" THEN simulate_once_after(d, fired) ELSE battle_once_after(d)

CanShoot(sa, sb, d) == ~d.done /\ d.idx <= Len(Weapons(sa, sb, d))
CanSkip(sa, sb, d) == ~d.done /\ Len(Weapons(sa, sb, d)) = 0

\* One shot: roll, judge, take damage, stop the volley on destruction.
ShotStep(e, sa, sb, d, r) ==
    LET att == Attacker(d)
        me  == IF att = "a" THEN sa ELSE sb
        foe == IF att = "a" THEN sb ELSE sa
        W   == Weapons(sa, sb, d)
        dmg == W[d.idx]
        hit == Hit(e, r, me.computer, foe.shield)
        d1  == IF ~hit THEN d
               ELSE IF att = "a" THEN [d EXCEPT !.b_hp = Ship_take(@, dmg)]
               ELSE [d EXCEPT !.a_hp = Ship_take(@, dmg)]
    IN  IF (hit /\ Ship_destroyed(TargetHp(d1))) \/ d.idx = Len(W)
        THEN After(e, d1, TRUE)
        ELSE [d1 EXCEPT !.idx = @ + 1]

SkipStep_stop(e, sa, sb, d) == Resolve(d, 0)

\* A volley over an empty weapon list: no roll.
SkipStep(e, sa, sb, d) == After(e, d, FALSE)

----------------------------------------------------------------------------
(* win_probability *)

NoResult == [kind |-> "none", num |-> 0, den |-> 0]

QuotientNaN(w, n) ==
    IF n = 0 THEN [kind |-> "float", num |-> 0, den |-> 0]
    ELSE [kind |-> "float", num |-> w, den |-> n]

\* wins / simulations: Python's true division of two ints.
Quotient(w, n) ==
    IF n = 0 THEN [kind |-> "ZeroDivisionError", num |-> w, den |-> n]
    ELSE [kind |-> "float", num |-> w, den |-> n]

CountedTruthy(e, ret) == ret # 0

\* Whether a trial's return value adds one to wins.
Counted(e, ret) ==
    IF e = "ref" THEN ret = 1 ELSE ret # 0

\* A generator state: src = NoSeed is a state nobody chose (start-up entropy,
\* or whatever earlier use left behind), whose draws are arbitrary; otherwise
\* the stream of seed `src`, `pos` draws in.
Seeded(s) == [src |-> s, pos |-> 0]

\* random.seed(seed), when a seed is given.
SeedPy(g, s) == IF s # NoSeed THEN Seeded(s) ELSE g

\* np.random.seed(seed), called from the interpreter when Numba is there.
SeedNp(g, s) ==
    IF s # NoSeed /\ module = "battle_sim_numba" /\ NUMBA_AVAILABLE
    THEN Seeded(s) ELSE g

\* Entry: seeding, wins = 0.  The generator behind np.random inside compiled
\* code is not the interpreter-side NumPy generator: np.random.seed called
\* from the interpreter leaves it as it was.
Enter ==
    /\ pc = "call"
    /\ py_rng' = SeedPy(py_rng, seed)
    /\ np_rng' = SeedNp(np_rng, seed)
    /\ nb_rng' = nb_rng
    /\ pc' = "loop"
    /\ i' = 0
    /\ wins' = 0
    /\ a_won' = 0
    /\ UNCHANGED <<duel, result>>

StartTrialShared ==
    /\ pc = "loop"
    /\ i < simulations
    /\ duel' = [NewDuel(spec_a, spec_b) EXCEPT !.a_hp = duel.a_hp,
                                               !.b_hp = duel.b_hp]
    /\ pc' = "duel"
    /\ UNCHANGED <<i, wins, a_won, result>>

\* One iteration begins: fresh ships from the specs.  On the Numba path the
\* iterations of _batch_simulate's prange are taken here one at a time.
StartTrial ==
    /\ pc = "loop"
    /\ i < simulations
    /\ duel' = NewDuel(spec_a, spec_b)
    /\ pc' = "duel"
    /\ UNCHANGED <<i, wins, a_won, result>>

Fire(r) ==
    /\ pc = "duel"
    /\ CanShoot(spec_a, spec_b, duel)
    /\ duel' = ShotStep(Engine, spec_a, spec_b, duel, r)
    /\ UNCHANGED <<pc, i, wins, a_won, result>>

EmptyVolley ==
    /\ pc = "duel"
    /\ CanSkip(spec_a, spec_b, duel)
    /\ duel' = SkipStep(Engine, spec_a, spec_b, duel)
    /\ UNCHANGED <<pc, i, wins, a_won, result>>

EndTrial ==
    /\ pc = "duel"
    /\ duel.done
    /\ wins' = wins + (IF Counted(Engine, duel.ret) THEN 1 ELSE 0)
    /\ a_won' = a_won + (IF Ship_destroyed(duel.b_hp) /\ ~Ship_destroyed(duel.a_hp)
                         THEN 1 ELSE 0)
    /\ i' = i + 1
    /\ pc' = "loop"
    /\ UNCHANGED <<duel, result>>

Return ==
    /\ pc = "loop"
    /\ ~(i < simulations)
    /\ result' = Quotient(wins, simulations)
    /\ pc' = IF result'.kind = "float" THEN "returned" ELSE "raised"
    /\ UNCHANGED <<i, wins, a_won, duel>>

----------------------------------------------------------------------------
(* _batch_simulate: the state of the prange loop *)

Workers == 1..MaxWorkers

\* A thread of the loop: where it is, the trial it runs, its accumulator,
\* and the value it read for the addition in progress.
IdleWorker ==
    [pc |-> "idle", d |-> NewDuel(spec_a, spec_b), acc |-> 0, tmp |-> 0]

\* The loop over n iterations, none of them handed out yet.
NewPar(n) == [left |-> n, w |-> [k \in Workers |-> IdleWorker]]

NoPar == NewPar(0)

----------------------------------------------------------------------------
(* Spec: one call of win_probability, rolls drawn freely *)

InitRest ==
    /\ pc = "call"
    /\ i = 0
    /\ wins = 0
    /\ a_won = 0
    /\ duel = NewDuel(spec_a, spec_b)
    /\ result = NoResult
    /\ duel2 = NewDuel(spec_b, spec_a)
    /\ py_rng = Seeded(NoSeed)
    /\ np_rng = Seeded(NoSeed)
    /\ nb_rng = Seeded(NoSeed)
    /\ tape = [s \in 1..MaxSeed |-> <<>>]
    /\ call = 1
    /\ first = NoResult
    /\ shot = [comp |-> 0, shield |-> 0, r |-> -1,
               ref |-> FALSE, py |-> FALSE, nb |-> FALSE]
    /\ par = NoPar

Init ==
    /\ \E e \in Engines : module = e[1] /\ NUMBA_AVAILABLE = e[2]
    /\ spec_a \in Ships
    /\ spec_b \in Ships
    /\ simulations \in -1..MaxSims
    /\ seed = NoSeed
    /\ InitRest

Next ==
    \/ Enter /\ UNCHANGED <<args, tape, call, first, duel2, shot, par>>
    \/ StartTrial /\ UNCHANGED <<args, rngv, duel2, shot, par>>
    \/ (\E r \in Rolls : Fire(r)) /\ UNCHANGED <<args, rngv, duel2, shot, par>>
    \/ EmptyVolley /\ UNCHANGED <<args, rngv, duel2, shot, par>>
    \/ EndTrial /\ UNCHANGED <<args, rngv, duel2, shot, par>>
    \/ Return /\ UNCHANGED <<args, rngv, duel2, shot, par>>

Spec == Init /\ [][Next]_vars

----------------------------------------------------------------------------
(* SpecHit: the single-shot rule of the three implementations *)

Stats == 0..MaxStat

Judge(r) ==
    /\ shot' = [shot EXCEPT !.r = r,
                            !.ref = Ship_hit(Ship_roll(r), shot.comp, shot.shield),
                            !.py = roll_hit_py(r, shot.comp, shot.shield),
                            !.nb = roll_hit(r, shot.comp, shot.shield)]
    /\ UNCHANGED <<args, drv, rngv, duel2, par>>

InitHit ==
    /\ module = "battle_sim" /\ NUMBA_AVAILABLE = FALSE
    /\ spec_a = T1A /\ spec_b = T1B
    /\ simulations = 1 /\ seed = NoSeed
    /\ pc = "call" /\ i = 0 /\ wins = 0 /\ a_won = 0
    /\ duel = NewDuel(spec_a, spec_b) /\ result = NoResult
    /\ duel2 = NewDuel(spec_b, spec_a)
    /\ py_rng = Seeded(NoSeed) /\ np_rng = Seeded(NoSeed) /\ nb_rng = Seeded(NoSeed)
    /\ tape = [s \in 1..MaxSeed |-> <<>>]
    /\ call = 1 /\ first = NoResult
    /\ \E c \in Stats, s \in Stats :
          shot = [comp |-> c, shield |-> s, r |-> -1,
                  ref |-> FALSE, py |-> FALSE, nb |-> FALSE]
    /\ par = NoPar

NextHit == \E r \in Rolls : Judge(r)

SpecHit == InitHit /\ [][NextHit]_vars

----------------------------------------------------------------------------
(* SpecSym, SpecHull: two runs of the resolver fed the same rolls.  duel  *)
(* is the run on (spec_a, spec_b); duel2 is the run on (xa, xb).  A roll  *)
(* is consumed by both runs at once; a volley over an empty list consumes *)
(* none and is a step of one run alone.                                   *)

PairFire(r, xa, xb) ==
    /\ duel.done \/ CanShoot(spec_a, spec_b, duel)
    /\ duel2.done \/ CanShoot(xa, xb, duel2)
    /\ ~(duel.done /\ duel2.done)
    /\ duel' = IF duel.done THEN duel
               ELSE ShotStep(Engine, spec_a, spec_b, duel, r)
    /\ duel2' = IF duel2.done THEN duel2
                ELSE ShotStep(Engine, xa, xb, duel2, r)
    /\ UNCHANGED <<args, pc, i, wins, a_won, result, rngv, shot, par>>

PairSkip1 ==
    /\ CanSkip(spec_a, spec_b, duel)
    /\ duel' = SkipStep(Engine, spec_a, spec_b, duel)
    /\ UNCHANGED <<args, pc, i, wins, a_won, result, rngv, shot, duel2, par>>

PairSkip2(xa, xb) ==
    /\ CanSkip(xa, xb, duel2)
    /\ duel2' = SkipStep(Engine, xa, xb, duel2)
    /\ UNCHANGED <<args, drv, rngv, shot, par>>

InitPair ==
    /\ \E e \in Engines : module = e[1] /\ NUMBA_AVAILABLE = e[2]
    /\ spec_a \in ValidShips
    /\ spec_b \in ValidShips
    /\ simulations = 1 /\ seed = NoSeed
    /\ pc = "duel" /\ i = 0 /\ wins = 0 /\ a_won = 0
    /\ duel = NewDuel(spec_a, spec_b) /\ result = NoResult
    /\ py_rng = Seeded(NoSeed) /\ np_rng = Seeded(NoSeed) /\ nb_rng = Seeded(NoSeed)
    /\ tape = [s \in 1..MaxSeed |-> <<>>]
    /\ call = 1 /\ first = NoResult
    /\ shot = [comp |-> 0, shield |-> 0, r |-> -1,
               ref |-> FALSE, py |-> FALSE, nb |-> FALSE]
    /\ par = NoPar

\* The roles swapped.
InitSym == InitPair /\ duel2 = NewDuel(spec_b, spec_a)

NextSym ==
    \/ \E r \in Rolls : PairFire(r, spec_b, spec_a)
    \/ PairSkip1
    \/ PairSkip2(spec_b, spec_a)

SpecSym == InitSym /\ [][NextSym]_vars

\* A's hull raised by one, all else fixed.
MoreHull(s) == [s EXCEPT !.hull = @ + 1]

InitHull == InitPair /\ duel2 = NewDuel(MoreHull(spec_a), spec_b)

NextHull ==
    \/ \E r \in Rolls : PairFire(r, MoreHull(spec_a), spec_b)
    \/ PairSkip1
    \/ PairSkip2(MoreHull(spec_a), spec_b)

SpecHull == InitHull /\ [][NextHull]_vars

----------------------------------------------------------------------------
(* SpecDet: two calls of win_probability with the same arguments, the die *)
(* rolls drawn from the generators.  A seeded stream is a fixed sequence  *)
(* of outcomes: tape[s] holds the part of seed s's stream drawn so far,   *)
(* a draw past its end fixes one more outcome, a draw before its end      *)
(* repeats the recorded one.                                              *)

\* The generator a shot draws from: random.choice / random.randint use the
\* `random` module's generator, np.random.randint inside _roll_hit the
\* generator of the compiled code.
Drawn == IF Engine = "nb" THEN nb_rng ELSE py_rng

Known(g) == g.src # NoSeed /\ g.pos < Len(tape[g.src])

CanDraw(g, r) ==
    \/ g.src = NoSeed
    \/ Known(g) /\ tape[g.src][g.pos + 1] = r
    \/ g.src # NoSeed /\ ~Known(g) /\ Len(tape[g.src]) < MaxRolls

Advance(g) == IF g.src = NoSeed THEN g ELSE [g EXCEPT !.pos = @ + 1]

TapeAfter(g, r) ==
    IF g.src = NoSeed \/ Known(g) THEN tape
    ELSE [tape EXCEPT ![g.src] = Append(@, r)]

\* One shot whose roll comes from the generator.
DrawFire(r) ==
    /\ CanDraw(Drawn, r)
    /\ Fire(r)
    /\ tape' = TapeAfter(Drawn, r)
    /\ IF Engine = "nb"
       THEN nb_rng' = Advance(nb_rng) /\ py_rng' = py_rng
       ELSE py_rng' = Advance(py_rng) /\ nb_rng' = nb_rng
    /\ UNCHANGED <<args, np_rng, call, first, duel2, shot, par>>

\* Other code draws from the `random` module between the calls.
OtherUse(r) ==
    /\ pc = "call"
    /\ CanDraw(py_rng, r)
    /\ tape' = TapeAfter(py_rng, r)
    /\ py_rng' = Advance(py_rng)
    /\ UNCHANGED <<args, drv, np_rng, nb_rng, call, first, duel2, shot, par>>

\* The caller keeps the first result and calls again, same arguments.
CallAgain ==
    /\ pc \in {"returned", "raised"}
    /\ call = 1
    /\ first' = result
    /\ call' = 2
    /\ result' = NoResult
    /\ pc' = "call"
    /\ UNCHANGED <<args, i, wins, a_won, duel, py_rng, np_rng, nb_rng, tape,
                   duel2, shot, par>>

InitDet ==
    /\ \E e \in Engines : module = e[1] /\ NUMBA_AVAILABLE = e[2]
    /\ spec_a \in {T1A, T2A}
    /\ spec_b = T1B
    /\ simulations \in 1..MaxSims
    /\ seed \in {NoSeed} \cup (1..MaxSeed)
    /\ pc = "call" /\ i = 0 /\ wins = 0 /\ a_won = 0
    /\ duel = NewDuel(spec_a, spec_b) /\ result = NoResult
    /\ duel2 = NewDuel(spec_b, spec_a)
    /\ \E s \in {NoSeed} \cup (1..MaxSeed) : py_rng = Seeded(s)
    /\ np_rng = Seeded(NoSeed)
    /\ nb_rng = Seeded(NoSeed)
    /\ tape = [s \in 1..MaxSeed |-> <<>>]
    /\ call = 1 /\ first = NoResult
    /\ shot = [comp |-> 0, shield |-> 0, r |-> -1,
               ref |-> FALSE, py |-> FALSE, nb |-> FALSE]
    /\ par = NoPar

NextDet ==
    \/ Enter /\ UNCHANGED <<args, tape, call, first, duel2, shot, par>>
    \/ StartTrial /\ UNCHANGED <<args, rngv, duel2, shot, par>>
    \/ \E r \in Rolls : DrawFire(r)
    \/ EmptyVolley /\ UNCHANGED <<args, rngv, duel2, shot, par>>
    \/ EndTrial /\ UNCHANGED <<args, rngv, duel2, shot, par>>
    \/ Return /\ UNCHANGED <<args, rngv, duel2, shot, par>>
    \/ CallAgain
    \/ \E r \in Rolls : OtherUse(r)

SpecDet == InitDet /\ [][NextDet]_vars

----------------------------------------------------------------------------
(* Claims checked under Spec *)

BothValid == Valid(spec_a) /\ Valid(spec_b)
Strict == spec_a.initiative # spec_b.initiative
Higher == IF spec_a.initiative > spec_b.initiative THEN "a" ELSE "b"
AtStart(d) == ~d.done /\ d.phase = "missile" /\ d.turn = 1 /\ d.idx = 1

C2_Order ==
    (pc = "duel" /\ ~duel.done /\ Strict)
        => (duel.turn = 1 <=> Attacker(duel) = Higher)

C2_Step ==
    (pc = "duel" /\ pc' = "duel" /\ Strict) =>
        /\ duel'.a_first = duel.a_first
        /\ (duel.turn = 1 /\ duel'.turn = 2) => duel'.phase = duel.phase
        /\ (duel.turn = 2 /\ duel'.turn = 1) => duel'.phase = "cannon"
        /\ duel.turn = 1 =>
              IF Higher = "a" THEN duel'.a_hp = duel.a_hp
                              ELSE duel'.b_hp = duel.b_hp
        /\ duel.turn = 2 =>
              IF Higher = "a" THEN duel'.b_hp = duel.b_hp
                              ELSE duel'.a_hp = duel.a_hp

\* C2: with strictly different initiatives, the higher one is the attacker
\* of the first volley of every exchange (missile phase and every cannon
\* round) and the lower one of the second; the order is fixed for the trial,
\* and a first-volley step never touches the higher one's hull.
C2_FiringOrder == [](C2_Order) /\ [][C2_Step]_vars

C2_Witness ==
    /\ pc = "duel" /\ ~duel.done /\ i = 1
    /\ duel.phase = "cannon" /\ duel.turn = 2
    /\ spec_a.initiative < spec_b.initiative
    /\ Attacker(duel) = "a"
    /\ duel.a_hp < spec_a.hull

\* C3: in the reference loop and the fallback loop, for a trial count >= 1
\* and valid specs, the loop index never passes the trial count,
\* 0 <= wins <= trials completed, wins equals the number of trials that
\* ended with B destroyed and A alive, the call never raises, and it
\* returns wins / simulations in [0,1] after exactly `simulations` trials.
C3_WinCounter ==
    (Engine # "nb" /\ simulations >= 1 /\ BothValid /\ pc # "call") =>
        /\ 0 <= wins /\ wins <= i /\ i <= simulations
        /\ wins = a_won
        /\ pc # "raised"
        /\ pc = "returned" =>
              /\ i = simulations
              /\ result = [kind |-> "float", num |-> wins, den |-> simulations]
              /\ 0 <= result.num /\ result.num <= result.den /\ result.den > 0

C3_Witness ==
    /\ pc = "returned" /\ simulations = 2 /\ wins = 1 /\ BothValid
    /\ module = "battle_sim"

\* C7: a trial count of 0 never starts a duel and never returns a number;
\* the call ends by raising (the division by zero).
C7_ZeroTrialsRejected ==
    simulations = 0 =>
        /\ pc \notin {"duel", "returned"}
        /\ i = 0
        /\ result.kind \in {"none", "ZeroDivisionError"}
        /\ pc = "raised" <=> result.kind = "ZeroDivisionError"

C7_Witness == simulations = 0 /\ pc = "raised" /\ result.kind = "ZeroDivisionError"

\* C8: a negative trial count never returns a numeric result.
C8_NegativeRejected == simulations < 0 => pc # "returned"

\* C9: on a malformed spec (hull <= 0 or a negative damage value) no duel
\* is ever started.
C9_MalformedRejected == ~BothValid => pc # "duel"

\* C10: every trial starts with both hulls equal to the hulls of the specs,
\* and no step changes the caller's specs.
C10_TrialIsolation ==
    /\ []((pc = "duel" /\ AtStart(duel)) =>
            (duel.a_hp = spec_a.hull /\ duel.b_hp = spec_b.hull))
    /\ [][spec_a' = spec_a /\ spec_b' = spec_b]_vars

C10_Witness ==
    /\ pc = "duel" /\ AtStart(duel) /\ i = 1 /\ BothValid
    /\ duel.a_hp = spec_a.hull /\ duel.b_hp = spec_b.hull

----------------------------------------------------------------------------
(* Claims checked under SpecHit, SpecSym, SpecHull *)

\* The rule as stated: index 0 is Miss, index 5 is AutoHit, index r in 1..4
\* is the value r + 1.
Rule(r, C, S) == r = 5 \/ (r \in 1..4 /\ (r + 1) + C - S >= 6)

\* C1: for every computer bonus, shield and die outcome, each of Ship._hit,
\* _roll_hit_py and _roll_hit reports a hit iff the outcome is AutoHit or a
\* numeric v with v + C - S >= 6.
C1_SingleShotRule ==
    shot.r # -1 =>
        /\ shot.ref <=> Rule(shot.r, shot.comp, shot.shield)
        /\ shot.py <=> Rule(shot.r, shot.comp, shot.shield)
        /\ shot.nb <=> Rule(shot.r, shot.comp, shot.shield)

C1_Witness ==
    /\ shot.r = 4 /\ shot.comp - shot.shield = 1
    /\ shot.ref /\ shot.py /\ shot.nb

FirstWins(d) == d.done /\ Counted(Engine, d.ret)

SameDestroyed ==
    /\ Ship_destroyed(duel.a_hp) <=> Ship_destroyed(duel2.b_hp)
    /\ Ship_destroyed(duel.b_hp) <=> Ship_destroyed(duel2.a_hp)

\* C5 as stated: for all valid specs, equal initiatives included, the duel
\* on (A, B) and the duel on (B, A) fed the same rolls destroy the same
\* combatant, and the first-named one wins in exactly one of the two.
C5_SwapSymmetry ==
    (duel.done /\ duel2.done) =>
        (SameDestroyed /\ (FirstWins(duel) # FirstWins(duel2)))

\* C5 amended: the same, for specs whose initiatives differ; the two runs
\* then also end on the same roll.
C5_SwapSymmetryStrict ==
    (Strict /\ (duel.done \/ duel2.done)) =>
        /\ duel.done /\ duel2.done
        /\ SameDestroyed
        /\ FirstWins(duel) # FirstWins(duel2)

C5_Witness ==
    /\ Strict /\ duel.done /\ duel2.done
    /\ FirstWins(duel2) /\ ~FirstWins(duel)
    /\ duel.phase = "cannon" /\ duel.b_hp < spec_b.hull

\* C6: on every roll stream on which A wins with hull h, A wins with hull
\* h + 1 as well (B's spec and A's other fields fixed).
C6_HullMonotone == FirstWins(duel) => FirstWins(duel2)

C6_Witness ==
    /\ FirstWins(duel) /\ FirstWins(duel2)
    /\ duel.a_hp < spec_a.hull
    /\ duel2.a_hp = duel.a_hp + 1

----------------------------------------------------------------------------
(* Claims checked under SpecDet *)

\* C4: two calls with the same non-None seed, the same specs and the same
\* trial count return identical results, whatever state the generators
\* were in before each call; in the reference module, the pure-Python
\* fallback and the Numba path.
C4_SeededCallsAgree ==
    (call = 2 /\ pc \in {"returned", "raised"} /\ seed # NoSeed)
        => result = first

----------------------------------------------------------------------------
(* The four scenarios of the test suite and their exact win probabilities *)

\* test_battle_sim.py: the (spec_a, spec_b) pairs of TEST_CASES.
Scenarios == <<<<T1A, T1B>>, <<T2A, T2B>>, <<T3A, T3B>>, <<T4A, T4B>>>>

\* test_battle_sim.py: the expected probability of each pair, <<p, q>> for p/q.
Expected == <<<<3, 4>>, <<85, 128>>, <<23181, 31104>>, <<233948607, 275365888>>>>

InScenario(k) == spec_a = Scenarios[k][1] /\ spec_b = Scenarios[k][2]

\* A common denominator for the win probabilities of the positions of
\* scenario k.
WinDen == <<8, 128, 124416, 1101463552>>

\* n / WinDen[sc] is the probability that the first-named combatant wins
\* from the position (a_hp, b_hp, phase, turn, idx) of scenario sc, when
\* every roll is uniform over the six faces.
WinRows == {
    [sc |-> 1, a |-> 1, b |-> 1, ph |-> "missile", t |-> 1, ix |-> 1, n |-> 6],
    [sc |-> 1, a |-> 1, b |-> 1, ph |-> "missile", t |-> 2, ix |-> 1, n |-> 6],
    [sc |-> 1, a |-> 1, b |-> 1, ph |-> "cannon", t |-> 1, ix |-> 1, n |-> 6],
    [sc |-> 1, a |-> 1, b |-> 1, ph |-> "cannon", t |-> 2, ix |-> 1, n |-> 5],
    [sc |-> 2, a |-> 2, b |-> 2, ph |-> "missile", t |-> 1, ix |-> 1, n |-> 85],
    [sc |-> 2, a |-> 2, b |-> 2, ph |-> "missile", t |-> 2, ix |-> 1, n |-> 102],
    [sc |-> 2, a |-> 2, b |-> 2, ph |-> "cannon", t |-> 1, ix |-> 1, n |-> 95],
    [sc |-> 2, a |-> 2, b |-> 1, ph |-> "cannon", t |-> 1, ix |-> 1, n |-> 116],
    [sc |-> 2, a |-> 1, b |-> 2, ph |-> "cannon", t |-> 1, ix |-> 1, n |-> 50],
    [sc |-> 2, a |-> 1, b |-> 1, ph |-> "cannon", t |-> 1, ix |-> 1, n |-> 80],
    [sc |-> 2, a |-> 2, b |-> 2, ph |-> "cannon", t |-> 2, ix |-> 1, n |-> 102],
    [sc |-> 2, a |-> 2, b |-> 1, ph |-> "cannon", t |-> 2, ix |-> 1, n |-> 120],
    [sc |-> 2, a |-> 1, b |-> 2, ph |-> "cannon", t |-> 2, ix |-> 1, n |-> 60],
    [sc |-> 2, a |-> 1, b |-> 1, ph |-> "cannon", t |-> 2, ix |-> 1, n |-> 96],
    [sc |-> 3, a |-> 2, b |-> 2, ph |-> "missile", t |-> 1, ix |-> 1, n |-> 92724],
    [sc |-> 3, a |-> 2, b |-> 2, ph |-> "missile", t |-> 1, ix |-> 2, n |-> 85050],
    [sc |-> 3, a |-> 2, b |-> 1, ph |-> "missile", t |-> 1, ix |-> 2, n |-> 108072],
    [sc |-> 3, a |-> 2, b |-> 2, ph |-> "missile", t |-> 2, ix |-> 1, n |-> 77625],
    [sc |-> 3, a |-> 2, b |-> 1, ph |-> "missile", t |-> 2, ix |-> 1, n |-> 99900],
    [sc |-> 3, a |-> 2, b |-> 2, ph |-> "missile", t |-> 2, ix |-> 2, n |-> 85050],
    [sc |-> 3, a |-> 2, b |-> 1, ph |-> "missile", t |-> 2, ix |-> 2, n |-> 106920],
    [sc |-> 3, a |-> 1, b |-> 2, ph |-> "missile", t |-> 2, ix |-> 2, n |-> 40500],
    [sc |-> 3, a |-> 1, b |-> 1, ph |-> "missile", t |-> 2, ix |-> 2, n |-> 64800],
    [sc |-> 3, a |-> 2, b |-> 2, ph |-> "missile", t |-> 2, ix |-> 3, n |-> 92340],
    [sc |-> 3, a |-> 2, b |-> 1, ph |-> "missile", t |-> 2, ix |-> 3, n |-> 112752],
    [sc |-> 3, a |-> 1, b |-> 2, ph |-> "missile", t |-> 2, ix |-> 3, n |-> 48600],
    [sc |-> 3, a |-> 1, b |-> 1, ph |-> "missile", t |-> 2, ix |-> 3, n |-> 77760],
    [sc |-> 3, a |-> 2, b |-> 2, ph |-> "cannon", t |-> 1, ix |-> 1, n |-> 99144],
    [sc |-> 3, a |-> 2, b |-> 1, ph |-> "cannon", t |-> 1, ix |-> 1, n |-> 116640],
    [sc |-> 3, a |-> 1, b |-> 2, ph |-> "cannon", t |-> 1, ix |-> 1, n |-> 58320],
    [sc |-> 3, a |-> 1, b |-> 1, ph |-> "cannon", t |-> 1, ix |-> 1, n |-> 93312],
    [sc |-> 3, a |-> 2, b |-> 2, ph |-> "cannon", t |-> 2, ix |-> 1, n |-> 92340],
    [sc |-> 3, a |-> 2, b |-> 1, ph |-> "cannon", t |-> 2, ix |-> 1, n |-> 112752],
    [sc |-> 3, a |-> 1, b |-> 2, ph |-> "cannon", t |-> 2, ix |-> 1, n |-> 48600],
    [sc |-> 3, a |-> 1, b |-> 1, ph |-> "cannon", t |-> 2, ix |-> 1, n |-> 77760],
    [sc |-> 4, a |-> 3, b |-> 3, ph |-> "missile", t |-> 1, ix |-> 1, n |-> 935794428],
    [sc |-> 4, a |-> 3, b |-> 3, ph |-> "missile", t |-> 1, ix |-> 2, n |-> 888926650],
    [sc |-> 4, a |-> 3, b |-> 1, ph |-> "missile", t |-> 1, ix |-> 2, n |-> 1029529984],
    [sc |-> 4, a |-> 3, b |-> 3, ph |-> "missile", t |-> 2, ix |-> 1, n |-> 863007265],
    [sc |-> 4, a |-> 3, b |-> 2, ph |-> "missile", t |-> 2, ix |-> 1, n |-> 940765420],
    [sc |-> 4, a |-> 3, b |-> 1, ph |-> "missile", t |-> 2, ix |-> 1, n |-> 993563200],
    [sc |-> 4, a |-> 3, b |-> 3, ph |-> "missile", t |-> 2, ix |-> 2, n |-> 960993478],
    [sc |-> 4, a |-> 3, b |-> 2, ph |-> "missile", t |-> 2, ix |-> 2, n |-> 1027719784],
    [sc |-> 4, a |-> 3, b |-> 1, ph |-> "missile", t |-> 2, ix |-> 2, n |-> 1069344640],
    [sc |-> 4, a |-> 1, b |-> 3, ph |-> "missile", t |-> 2, ix |-> 2, n |-> 373076200],
    [sc |-> 4, a |-> 1, b |-> 2, ph |-> "missile", t |-> 2, ix |-> 2, n |-> 505993600],
    [sc |-> 4, a |-> 1, b |-> 1, ph |-> "missile", t |-> 2, ix |-> 2, n |-> 614656000],
    [sc |-> 4, a |-> 3, b |-> 3, ph |-> "missile", t |-> 2, ix |-> 3, n |-> 990770328],
    [sc |-> 4, a |-> 3, b |-> 2, ph |-> "missile", t |-> 2, ix |-> 3, n |-> 1046800944],
    [sc |-> 4, a |-> 3, b |-> 1, ph |-> "missile", t |-> 2, ix |-> 3, n |-> 1079850240],
    [sc |-> 4, a |-> 2, b |-> 3, ph |-> "missile", t |-> 2, ix |-> 3, n |-> 812109228],
    [sc |-> 4, a |-> 2, b |-> 2, ph |-> "missile", t |-> 2, ix |-> 3, n |-> 932313984],
    [sc |-> 4, a |-> 2, b |-> 1, ph |-> "missile", t |-> 2, ix |-> 3, n |-> 1016816640],
    [sc |-> 4, a |-> 1, b |-> 3, ph |-> "missile", t |-> 2, ix |-> 3, n |-> 447691440],
    [sc |-> 4, a |-> 1, b |-> 2, ph |-> "missile", t |-> 2, ix |-> 3, n |-> 607192320],
    [sc |-> 4, a |-> 1, b |-> 1, ph |-> "missile", t |-> 2, ix |-> 3, n |-> 737587200],
    [sc |-> 4, a |-> 3, b |-> 3, ph |-> "cannon", t |-> 1, ix |-> 1, n |-> 1015507368],
    [sc |-> 4, a |-> 3, b |-> 2, ph |-> "cannon", t |-> 1, ix |-> 1, n |-> 1061551008],
    [sc |-> 4, a |-> 3, b |-> 1, ph |-> "cannon", t |-> 1, ix |-> 1, n |-> 1087188480],
    [sc |-> 4, a |-> 2, b |-> 3, ph |-> "cannon", t |-> 1, ix |-> 1, n |-> 867085128],
    [sc |-> 4, a |-> 2, b |-> 2, ph |-> "cannon", t |-> 1, ix |-> 1, n |-> 973050624],
    [sc |-> 4, a |-> 2, b |-> 1, ph |-> "cannon", t |-> 1, ix |-> 1, n |-> 1043159040],
    [sc |-> 4, a |-> 1, b |-> 3, ph |-> "cannon", t |-> 1, ix |-> 1, n |-> 537229728],
    [sc |-> 4, a |-> 1, b |-> 2, ph |-> "cannon", t |-> 1, ix |-> 1, n |-> 728630784],
    [sc |-> 4, a |-> 1, b |-> 1, ph |-> "cannon", t |-> 1, ix |-> 1, n |-> 885104640],
    [sc |-> 4, a |-> 3, b |-> 3, ph |-> "cannon", t |-> 1, ix |-> 2, n |-> 983235580],
    [sc |-> 4, a |-> 3, b |-> 2, ph |-> "cannon", t |-> 1, ix |-> 2, n |-> 1041594736],
    [sc |-> 4, a |-> 3, b |-> 1, ph |-> "cannon", t |-> 1, ix |-> 2, n |-> 1080050944],
    [sc |-> 4, a |-> 2, b |-> 3, ph |-> "cannon", t |-> 1, ix |-> 2, n |-> 793624300],
    [sc |-> 4, a |-> 2, b |-> 2, ph |-> "cannon", t |-> 1, ix |-> 2, n |-> 908844160],
    [sc |-> 4, a |-> 2, b |-> 1, ph |-> "cannon", t |-> 1, ix |-> 2, n |-> 1014006784],
    [sc |-> 4, a |-> 1, b |-> 3, ph |-> "cannon", t |-> 1, ix |-> 2, n |-> 417382000],
    [sc |-> 4, a |-> 1, b |-> 2, ph |-> "cannon", t |-> 1, ix |-> 2, n |-> 542214400],
    [sc |-> 4, a |-> 1, b |-> 1, ph |-> "cannon", t |-> 1, ix |-> 2, n |-> 776925184],
    [sc |-> 4, a |-> 3, b |-> 3, ph |-> "cannon", t |-> 2, ix |-> 1, n |-> 960993478],
    [sc |-> 4, a |-> 3, b |-> 2, ph |-> "cannon", t |-> 2, ix |-> 1, n |-> 1027719784],
    [sc |-> 4, a |-> 3, b |-> 1, ph |-> "cannon", t |-> 2, ix |-> 1, n |-> 1069344640],
    [sc |-> 4, a |-> 2, b |-> 3, ph |-> "cannon", t |-> 2, ix |-> 1, n |-> 751372930],
    [sc |-> 4, a |-> 2, b |-> 2, ph |-> "cannon", t |-> 2, ix |-> 1, n |-> 878127040],
    [sc |-> 4, a |-> 2, b |-> 1, ph |-> "cannon", t |-> 2, ix |-> 1, n |-> 970278400],
    [sc |-> 4, a |-> 1, b |-> 3, ph |-> "cannon", t |-> 2, ix |-> 1, n |-> 373076200],
    [sc |-> 4, a |-> 1, b |-> 2, ph |-> "cannon", t |-> 2, ix |-> 1, n |-> 505993600],
    [sc |-> 4, a |-> 1, b |-> 1, ph |-> "cannon", t |-> 2, ix |-> 1, n |-> 614656000],
    [sc |-> 4, a |-> 3, b |-> 3, ph |-> "cannon", t |-> 2, ix |-> 2, n |-> 990770328],
    [sc |-> 4, a |-> 3, b |-> 2, ph |-> "cannon", t |-> 2, ix |-> 2, n |-> 1046800944],
    [sc |-> 4, a |-> 3, b |-> 1, ph |-> "cannon", t |-> 2, ix |-> 2, n |-> 1079850240],
    [sc |-> 4, a |-> 2, b |-> 3, ph |-> "cannon", t |-> 2, ix |-> 2, n |-> 812109228],
    [sc |-> 4, a |-> 2, b |-> 2, ph |-> "cannon", t |-> 2, ix |-> 2, n |-> 932313984],
    [sc |-> 4, a |-> 2, b |-> 1, ph |-> "cannon", t |-> 2, ix |-> 2, n |-> 1016816640],
    [sc |-> 4, a |-> 1, b |-> 3, ph |-> "cannon", t |-> 2, ix |-> 2, n |-> 447691440],
    [sc |-> 4, a |-> 1, b |-> 2, ph |-> "cannon", t |-> 2, ix |-> 2, n |-> 607192320],
    [sc |-> 4, a |-> 1, b |-> 1, ph |-> "cannon", t |-> 2, ix |-> 2, n |-> 737587200]}

\* The numerator for a duel state; -1 for a position the table lacks.
WinNum(k, d) ==
    IF d.done THEN (IF Counted(Engine, d.ret) THEN WinDen[k] ELSE 0)
    ELSE LET hits == {w \in WinRows :
                        /\ w.sc = k /\ w.a = d.a_hp /\ w.b = d.b_hp
                        /\ w.ph = d.phase /\ w.t = d.turn /\ w.ix = d.idx}
         IN  IF hits = {} THEN -1 ELSE (CHOOSE w \in hits : TRUE).n

AfterRoll(k, d, r) == WinNum(k, ShotStep(Engine, spec_a, spec_b, d, r))

RECURSIVE SumTo(_, _)
SumTo(f, n) == IF n < 0 THEN 0 ELSE f[n] + SumTo(f, n - 1)

\* faces * WinNum(d) = the sum of WinNum over the successors of d, one per
\* face: computed on the quotients and remainders by 2^15, since the
\* products exceed the 32-bit integers.
Balanced(k, d) ==
    LET faces == Cardinality(Rolls)
        hi == [r \in Rolls |-> AfterRoll(k, d, r) \div 32768]
        lo == [r \in Rolls |-> AfterRoll(k, d, r) % 32768]
        n  == WinNum(k, d)
        dq == SumTo(hi, faces - 1) - faces * (n \div 32768)
        dm == faces * (n % 32768) - SumTo(lo, faces - 1)
    IN  /\ n >= 0
        /\ \A r \in Rolls : AfterRoll(k, d, r) >= 0
        /\ dq \in (0 - faces)..faces
        /\ dq * 32768 = dm

\* C11: the probability that A wins is exactly 3/4, 85/128, 23181/31104 and
\* 233948607/275365888 in scenarios 1 to 4.  With uniform rolls the win
\* probability is the one function of the positions that is 1 on a win of
\* A, 0 on a loss, and at every other position the mean over the six faces
\* of its value after the shot (its value after the step, for a volley
\* without a roll); the table is such a function and has the stated value
\* at the start of the duel.
C11_ExactProbabilities ==
    \A k \in 1..Len(Scenarios) :
        (pc = "duel" /\ InScenario(k) /\ ~duel.done) =>
            /\ CanShoot(spec_a, spec_b, duel) => Balanced(k, duel)
            /\ CanSkip(spec_a, spec_b, duel) =>
                  WinNum(k, SkipStep(Engine, spec_a, spec_b, duel)) = WinNum(k, duel)
            /\ AtStart(duel) =>
                  LET m == WinDen[k] \div Expected[k][2] IN
                  /\ m * Expected[k][2] = WinDen[k]
                  /\ WinNum(k, duel) = m * Expected[k][1]

C11_Witness ==
    /\ pc = "duel" /\ InScenario(4) /\ ~duel.done
    /\ duel.phase = "cannon" /\ duel.turn = 2 /\ duel.idx = 2
    /\ duel.a_hp = 1 /\ duel.b_hp = 2
    /\ Balanced(4, duel)

----------------------------------------------------------------------------
(* Claims about the course of one duel, checked under Spec *)

NoCannons == Len(spec_a.cannons) = 0 /\ Len(spec_b.cannons) = 0

\* Both sides without a cannon, missile phase over, duel not ended.
Stalled == pc = "duel" /\ NoCannons /\ duel.phase = "cannon" /\ ~duel.done

\* C12: when both cannon lists are empty and both combatants survive the
\* missile phase, the cannon phase repeats forever: in every such state the
\* next volley is an empty one and is enabled, every step from it leads to
\* such a state again with both hulls as they were and both above 0, and
\* the duel is never marked ended.
C12_ZeroCannonNoEnd ==
    /\ [](Stalled =>
            /\ CanSkip(spec_a, spec_b, duel)
            /\ ~CanShoot(spec_a, spec_b, duel)
            /\ ~Ship_destroyed(duel.a_hp) /\ ~Ship_destroyed(duel.b_hp)
            /\ ENABLED EmptyVolley)
    /\ [][Stalled =>
            /\ Stalled'
            /\ duel'.a_hp = duel.a_hp /\ duel'.b_hp = duel.b_hp
            /\ duel'.turn # duel.turn
            /\ UNCHANGED <<pc, i, wins, result>>]_vars

C12_Witness ==
    /\ Stalled /\ duel.turn = 2
    /\ spec_a = MissileBoat /\ spec_b = MissileBoat
    /\ duel.a_hp = spec_a.hull /\ duel.b_hp = spec_b.hull

SomeoneDestroyed(d) == Ship_destroyed(d.a_hp) \/ Ship_destroyed(d.b_hp)

\* C13: within a trial, in no state in which a combatant's remaining hull
\* is <= 0 is a further shot resolved: the duel has ended, so no weapon of
\* any list is left to fire.
C13_NoShotAfterDestruction ==
    (pc = "duel" /\ SomeoneDestroyed(duel)) =>
        (duel.done /\ ~CanShoot(spec_a, spec_b, duel))

\* C14: for specs with hull > 0 and no negative damage, a duel that has
\* ended has exactly one combatant with remaining hull <= 0, the verdict
\* names the other one as the winner, and _simulate_once has not returned 0.
C14_NoDraw ==
    (pc = "duel" /\ duel.done /\ BothValid) =>
        /\ Ship_destroyed(duel.a_hp) # Ship_destroyed(duel.b_hp)
        /\ Counted(Engine, duel.ret) <=> Ship_destroyed(duel.b_hp)
        /\ IF Engine = "ref"
           THEN /\ duel.ret \in {1, -1}
                /\ duel.ret = -1 <=> Ship_destroyed(duel.a_hp)
           ELSE /\ duel.ret \in {0, 1}
                /\ duel.ret = 0 <=> Ship_destroyed(duel.a_hp)

C14_Witness ==
    /\ pc = "duel" /\ duel.done /\ BothValid /\ Engine = "ref"
    /\ duel.ret = -1 /\ duel.phase = "cannon"
    /\ Ship_destroyed(duel.a_hp) /\ duel.b_hp < spec_b.hull

ShotAt(r) == ShotStep(Engine, spec_a, spec_b, duel, r)

AttackerHp(d) == IF Attacker(d) = "a" THEN d.a_hp ELSE d.b_hp

ShotHits(r) ==
    LET me  == IF Attacker(duel) = "a" THEN spec_a ELSE spec_b
        foe == IF Attacker(duel) = "a" THEN spec_b ELSE spec_a
    IN  Hit(Engine, r, me.computer, foe.shield)

\* C15: within a trial no remaining hull ever increases: from every state
\* of a duel, a shot that misses leaves both hulls as they were, a shot that
\* hits lowers the defender's hull by exactly the damage of the weapon
\* fired and to no higher value than before, and no shot changes the
\* attacker's hull; a volley over an empty list changes neither hull.
C15_HullNeverIncreases ==
    pc = "duel" =>
        /\ CanShoot(spec_a, spec_b, duel) =>
              \A r \in Rolls :
                 LET dmg == Weapons(spec_a, spec_b, duel)[duel.idx]
                     att == Attacker(duel)
                     tgt == IF att = "a" THEN ShotAt(r).b_hp ELSE ShotAt(r).a_hp
                     own == IF att = "a" THEN ShotAt(r).a_hp ELSE ShotAt(r).b_hp
                 IN  /\ own = AttackerHp(duel)
                     /\ tgt <= TargetHp(duel)
                     /\ ShotHits(r) => tgt = TargetHp(duel) - dmg
                     /\ ~ShotHits(r) => tgt = TargetHp(duel)
        /\ CanSkip(spec_a, spec_b, duel) =>
              /\ SkipStep(Engine, spec_a, spec_b, duel).a_hp = duel.a_hp
              /\ SkipStep(Engine, spec_a, spec_b, duel).b_hp = duel.b_hp

SameVolley(d, e) == e.phase = d.phase /\ e.turn = d.turn

C16_Position ==
    (pc = "duel" /\ ~duel.done) =>
        /\ duel.idx >= 1
        /\ Len(Weapons(spec_a, spec_b, duel)) > 0 =>
              duel.idx <= Len(Weapons(spec_a, spec_b, duel))

C16_Step ==
    /\ (pc = "loop" /\ pc' = "duel") => AtStart(duel')
    /\ (pc = "duel" /\ pc' = "duel" /\ duel' # duel) =>
          /\ ~duel.done
          /\ duel.phase = "cannon" => duel'.phase = "cannon"
          /\ (duel.phase = "missile" /\ duel'.phase = "missile") =>
                duel'.turn >= duel.turn
          /\ (SameVolley(duel, duel') /\ ~duel'.done) =>
                duel'.idx = duel.idx + 1
          /\ (~SameVolley(duel, duel') /\ ~duel'.done) =>
                /\ duel'.idx = 1
                /\ duel'.turn # duel.turn
          /\ duel'.done => (SameVolley(duel, duel') /\ duel'.idx = duel.idx)

\* C16: a trial starts at the first missile of the side that fires first;
\* within a volley the entries of the list are fired one after the other in
\* listed order; the missile phase is passed once, the first side's list
\* and then the second side's, so no missile is fired twice; once the
\* cannon phase has begun the duel stays in it, and every cannon volley
\* starts again at the first entry of the list.
C16_WeaponOrder == [](C16_Position) /\ [][C16_Step]_vars

C16_Witness ==
    /\ pc = "duel" /\ ~duel.done
    /\ spec_a = T4A /\ spec_b = T4B
    /\ duel.phase = "cannon" /\ duel.turn = 1 /\ duel.idx = 2
    /\ duel.a_hp = 1 /\ duel.b_hp = 1

----------------------------------------------------------------------------
(* SpecPar: the Numba path, _batch_simulate's prange loop run by several  *)
(* threads.  Iterations are handed to idle threads in any order; a thread *)
(* runs its trial shot by shot, then adds the verdict to an accumulator   *)
(* in two steps (read, write), so that additions of different threads     *)
(* interleave.  `wins += ...` on a scalar in a prange body is a           *)
(* reduction: every thread adds into a copy of its own that starts at 0,  *)
(* and the copies are summed into wins when the loop is over.             *)

Cell_shared(w) == 1

\* The accumulator thread w adds into.
Cell(w) == w

RECURSIVE SumAcc(_, _)
SumAcc(p, S) ==
    IF S = {} THEN 0
    ELSE LET c == CHOOSE x \in S : TRUE
         IN  p.w[c].acc + SumAcc(p, S \ {c})

BatchTake(w) ==
    /\ pc = "loop"
    /\ par.left > 0
    /\ par.w[w].pc = "idle"
    /\ par' = [par EXCEPT !.left = @ - 1,
                          !.w[w].pc = "duel",
                          !.w[w].d = NewDuel(spec_a, spec_b)]
    /\ UNCHANGED <<args, drv, rngv, duel2, shot>>

BatchFire(w, r) ==
    /\ par.w[w].pc = "duel"
    /\ CanShoot(spec_a, spec_b, par.w[w].d)
    /\ par' = [par EXCEPT !.w[w].d = ShotStep(Engine, spec_a, spec_b, @, r)]
    /\ UNCHANGED <<args, drv, rngv, duel2, shot>>

BatchSkip(w) ==
    /\ par.w[w].pc = "duel"
    /\ CanSkip(spec_a, spec_b, par.w[w].d)
    /\ par' = [par EXCEPT !.w[w].d = SkipStep(Engine, spec_a, spec_b, @)]
    /\ UNCHANGED <<args, drv, rngv, duel2, shot>>

\* _battle_once has returned: the thread reads its accumulator.
BatchRead(w) ==
    /\ par.w[w].pc = "duel"
    /\ par.w[w].d.done
    /\ par' = [par EXCEPT !.w[w].pc = "add",
                          !.w[w].tmp = par.w[Cell(w)].acc]
    /\ a_won' = a_won + (IF Ship_destroyed(par.w[w].d.b_hp)
                            /\ ~Ship_destroyed(par.w[w].d.a_hp)
                         THEN 1 ELSE 0)
    /\ UNCHANGED <<args, pc, i, wins, duel, result, rngv, duel2, shot>>

\* ... and writes back the sum; the iteration is over.
BatchWrite(w) ==
    /\ par.w[w].pc = "add"
    /\ par' = [par EXCEPT !.w[Cell(w)].acc = par.w[w].tmp + par.w[w].d.ret,
                          !.w[w].pc = "idle"]
    /\ i' = i + 1
    /\ UNCHANGED <<args, pc, wins, a_won, duel, result, rngv, duel2, shot>>

\* The loop is over when every iteration has been run: the copies are
\* summed, _batch_simulate returns, win_probability divides.
BatchJoin ==
    /\ pc = "loop"
    /\ par.left = 0
    /\ \A w \in Workers : par.w[w].pc = "idle"
    /\ wins' = SumAcc(par, {Cell(w) : w \in Workers})
    /\ result' = Quotient(wins', simulations)
    /\ pc' = IF result'.kind = "float" THEN "returned" ELSE "raised"
    /\ UNCHANGED <<args, i, a_won, duel, rngv, duel2, shot, par>>

InitPar ==
    /\ module = "battle_sim_numba" /\ NUMBA_AVAILABLE = TRUE
    /\ \E k \in 1..2 : InScenario(k)
    /\ simulations \in 1..MaxSims
    /\ seed = NoSeed
    /\ pc = "call" /\ i = 0 /\ wins = 0 /\ a_won = 0
    /\ duel = NewDuel(spec_a, spec_b) /\ result = NoResult
    /\ duel2 = NewDuel(spec_b, spec_a)
    /\ py_rng = Seeded(NoSeed) /\ np_rng = Seeded(NoSeed) /\ nb_rng = Seeded(NoSeed)
    /\ tape = [s \in 1..MaxSeed |-> <<>>]
    /\ call = 1 /\ first = NoResult
    /\ shot = [comp |-> 0, shield |-> 0, r |-> -1,
               ref |-> FALSE, py |-> FALSE, nb |-> FALSE]
    /\ par = NewPar(simulations)

NextPar ==
    \/ Enter /\ UNCHANGED <<args, tape, call, first, duel2, shot, par>>
    \/ \E w \in Workers : BatchTake(w)
    \/ \E w \in Workers, r \in Rolls : BatchFire(w, r)
    \/ \E w \in Workers : BatchSkip(w)
    \/ \E w \in Workers : BatchRead(w)
    \/ \E w \in Workers : BatchWrite(w)
    \/ BatchJoin

SpecPar == InitPar /\ [][NextPar]_vars

Running == Cardinality({w \in Workers : par.w[w].pc # "idle"})

\* C17: in the parallel loop, for every way the iterations are handed to
\* the threads and every interleaving of their steps: every iteration is
\* run once; wins and the result are untouched while the loop runs; and
\* when the call has returned, every iteration has finished, the win count
\* is the number of trials that ended with B destroyed and A alive, and
\* the result is that count over the trial count.
C17_ParallelCount ==
    /\ par.left + Running + i = simulations
    /\ pc = "loop" => (wins = 0 /\ result = NoResult)
    /\ pc = "returned" =>
          /\ i = simulations /\ par.left = 0 /\ Running = 0
          /\ wins = a_won
          /\ result = [kind |-> "float", num |-> a_won, den |-> simulations]
    /\ pc # "raised"

C17_Witness ==
    /\ pc = "returned" /\ simulations = 2 /\ wins = 2
    /\ par.w[1].acc = 1 /\ par.w[2].acc = 1

----------------------------------------------------------------------------
(* SpecEq: _simulate_once and the fast resolver on the same specs and the *)
(* same rolls.  duel is the run of _simulate_once; duel2 is the run of    *)
(* _battle_once_py (NUMBA_AVAILABLE false) or _battle_once (true).  Each  *)
(* step is one step of the reference run, a shot or an empty volley; the  *)
(* fast run takes its own next step, with the same roll if it is a shot.  *)

HullPositive == {s \in Ships : s.hull > 0}

FastStep(d, r) ==
    IF d.done THEN d
    ELSE IF CanShoot(spec_a, spec_b, d)
         THEN ShotStep(Engine, spec_a, spec_b, d, r)
         ELSE SkipStep(Engine, spec_a, spec_b, d)

EqFire(r) ==
    /\ CanShoot(spec_a, spec_b, duel)
    /\ duel' = ShotStep("ref", spec_a, spec_b, duel, r)
    /\ duel2' = FastStep(duel2, r)
    /\ UNCHANGED <<args, pc, i, wins, a_won, result, rngv, shot, par>>

EqSkip ==
    /\ CanSkip(spec_a, spec_b, duel)
    /\ duel' = SkipStep("ref", spec_a, spec_b, duel)
    /\ duel2' = IF CanSkip(spec_a, spec_b, duel2)
                THEN SkipStep(Engine, spec_a, spec_b, duel2) ELSE duel2
    /\ UNCHANGED <<args, pc, i, wins, a_won, result, rngv, shot, par>>

InitEq ==
    /\ module = "battle_sim_numba" /\ NUMBA_AVAILABLE \in BOOLEAN
    /\ spec_a \in HullPositive
    /\ spec_b \in HullPositive
    /\ simulations = 1 /\ seed = NoSeed
    /\ pc = "duel" /\ i = 0 /\ wins = 0 /\ a_won = 0
    /\ duel = NewDuel(spec_a, spec_b) /\ result = NoResult
    /\ duel2 = NewDuel(spec_a, spec_b)
    /\ py_rng = Seeded(NoSeed) /\ np_rng = Seeded(NoSeed) /\ nb_rng = Seeded(NoSeed)
    /\ tape = [s \in 1..MaxSeed |-> <<>>]
    /\ call = 1 /\ first = NoResult
    /\ shot = [comp |-> 0, shield |-> 0, r |-> -1,
               ref |-> FALSE, py |-> FALSE, nb |-> FALSE]
    /\ par = NoPar

NextEq ==
    \/ \E r \in Rolls : EqFire(r)
    \/ EqSkip

SpecEq == InitEq /\ [][NextEq]_vars

\* C18: for specs with hull > 0, after every step the reference run and
\* the fast run are at the same weapon of the same volley with the same
\* two remaining hulls, so each roll is consumed by both for the same shot;
\* they end on the same step, and the reference verdict is 1 exactly when
\* the fast verdict is "A wins".
C18_SameResolver ==
    /\ duel.a_hp = duel2.a_hp /\ duel.b_hp = duel2.b_hp
    /\ duel.a_first = duel2.a_first
    /\ duel.phase = duel2.phase /\ duel.turn = duel2.turn /\ duel.idx = duel2.idx
    /\ duel.done = duel2.done
    /\ CanShoot(spec_a, spec_b, duel) = CanShoot(spec_a, spec_b, duel2)
    /\ duel.done =>
          /\ duel.ret = 1 <=> duel2.ret = 1
          /\ Counted("ref", duel.ret) <=> Counted(Engine, duel2.ret)

C18_Witness ==
    /\ duel.done /\ duel2.done /\ duel.ret = -1 /\ duel2.ret = 0
    /\ duel.phase = "cannon" /\ duel.turn = 1
    /\ duel.b_hp < spec_b.hull /\ spec_a = NegMissile

----------------------------------------------------------------------------
(* The tie of initiatives, checked under Spec *)

Tie == spec_a.initiative = spec_b.initiative

C19_Order ==
    (pc = "duel" /\ ~duel.done /\ Tie) =>
        /\ ~duel.a_first
        /\ duel.turn = 1 <=> Attacker(duel) = "b"
        /\ duel.turn = 1 =>
              Weapons(spec_a, spec_b, duel) =
                 (IF duel.phase = "missile" THEN spec_b.missiles
                                            ELSE spec_b.cannons)

C19_Step ==
    (pc = "duel" /\ pc' = "duel" /\ Tie) =>
        /\ duel'.a_first = duel.a_first
        /\ duel.turn = 1 => duel'.b_hp = duel.b_hp
        /\ duel.turn = 2 => duel'.a_hp = duel.a_hp
        /\ (duel.turn = 2 /\ duel'.turn = 1) => duel'.phase = "cannon"

\* C19: with equal initiatives the second-named combatant B is the
\* attacker of the first volley of the missile phase and of every cannon
\* round, in the reference and in the fast module alike: the first volley
\* fires B's list and leaves B's hull alone, the second fires A's, and the
\* order is the same for the whole trial.
C19_TieBreak == [](C19_Order) /\ [][C19_Step]_vars

C19_Witness ==
    /\ pc = "duel" /\ ~duel.done /\ Tie
    /\ spec_a = T2A /\ spec_b = T4B /\ Engine = "py"
    /\ duel.phase = "cannon" /\ duel.turn = 1 /\ duel.idx = 2
    /\ duel.a_hp = 1 /\ duel.b_hp < spec_b.hull

----------------------------------------------------------------------------
(* SpecLive: one duel that keeps running, with a fair die.  The resolver  *)
(* never waits: a pending shot or empty volley is taken (weak fairness).  *)
(* The die is fair on one cannon: if that cannon's shot comes up again    *)
(* and again, the roll is "Full hit" on it again and again (strong        *)
(* fairness).                                                             *)

\* A valid spec whose only cannon with positive damage is its second.
Blank == Spec6(4, 2, 1, 1, <<>>, <<0, 1>>)

LiveShips == ValidShips \cup {Blank}

AutoHit == CHOOSE r \in Rolls : Ship_roll(r) = Sym("Full hit")

PositiveCannons(s) == {k \in 1..Len(s.cannons) : s.cannons[k] > 0}

SomePositiveCannon ==
    PositiveCannons(spec_a) # {} \/ PositiveCannons(spec_b) # {}

\* The cannon the fairness is about: the first positive one of A, or of B
\* when A has none.
TheShooter == IF PositiveCannons(spec_a) # {} THEN "a" ELSE "b"

TheCannon ==
    LET s == IF TheShooter = "a" THEN spec_a ELSE spec_b
    IN  CHOOSE k \in PositiveCannons(s) : \A j \in PositiveCannons(s) : k <= j

LiveFire(r) == Fire(r) /\ UNCHANGED <<args, rngv, duel2, shot, par>>

LiveSkip == EmptyVolley /\ UNCHANGED <<args, rngv, duel2, shot, par>>

\* "Full hit" on a shot of that cannon.
AutoHitShot ==
    /\ SomePositiveCannon
    /\ duel.phase = "cannon"
    /\ Attacker(duel) = TheShooter
    /\ duel.idx = TheCannon
    /\ LiveFire(AutoHit)

InitLive ==
    /\ \E e \in Engines : module = e[1] /\ NUMBA_AVAILABLE = e[2]
    /\ spec_a \in LiveShips
    /\ spec_b \in LiveShips
    /\ simulations = 1 /\ seed = NoSeed
    /\ pc = "duel" /\ i = 0 /\ wins = 0 /\ a_won = 0
    /\ duel = NewDuel(spec_a, spec_b) /\ result = NoResult
    /\ duel2 = NewDuel(spec_b, spec_a)
    /\ py_rng = Seeded(NoSeed) /\ np_rng = Seeded(NoSeed) /\ nb_rng = Seeded(NoSeed)
    /\ tape = [s \in 1..MaxSeed |-> <<>>]
    /\ call = 1 /\ first = NoResult
    /\ shot = [comp |-> 0, shield |-> 0, r |-> -1,
               ref |-> FALSE, py |-> FALSE, nb |-> FALSE]
    /\ par = NoPar

NextLive ==
    \/ \E r \in Rolls : LiveFire(r)
    \/ LiveSkip

SpecLive ==
    /\ InitLive
    /\ [][NextLive]_vars
    /\ WF_vars(NextLive)
    /\ SF_vars(AutoHitShot)

\* C20: for valid specs of which at least one has a cannon of positive
\* damage, and a die that shows "Full hit" infinitely often on that
\* cannon's shots, every duel ends.
C20_Termination == (BothValid /\ SomePositiveCannon) ~> duel.done

C20_Witness ==
    /\ duel.done /\ spec_a = Blank /\ spec_b = MissileBoat
    /\ Ship_destroyed(duel.b_hp) /\ ~Ship_destroyed(duel.a_hp)

====
